---------------------------- MODULE Spec2Model ----------------------------
(***************************************************************************)
(* A model of the Privara HIDS backend (server.py): the configuration      *)
(* validator and its live instance, the GDPR log files and their purge,    *)
(* the metrics source with its fallback, the JavaFX metrics ingestor with  *)
(* its enhanced view and its history table, the Khepri-ML risk scorer, and *)
(* the process list with its snapshots.                                    *)
(***************************************************************************)
EXTENDS Integers, Sequences, FiniteSets, TLC

VARIABLES
    heap,            \* the four nested dict objects DEFAULT_CONFIG refers to
    CONFIG,          \* the module-level CONFIG: a top-level dict of references
    config_file,     \* config.json
    logs,            \* LOG_DIR: day |-> the lines of privara_<day>.log
    now,             \* the current day
    cfg_pc,          \* position of the POST /api/config handler
    cfg_req,         \* request.json of that POST
    cfg_before,      \* the live Config when that POST arrived
    cfg_resp,        \* its response
    get_seen,        \* what GET /api/config returned while the POST was running
    purge_resp,      \* the response of the last POST /api/logs/delete
    javafx_metrics,  \* the module-level javafx_metrics
    system_metrics,  \* the rows of the system_metrics table, in id order
    metrics_table,   \* whether privara.db has a system_metrics table
    push_resp,       \* the last POST /api/system-update and its response
    pushes,          \* the number of POST /api/system-update requests so far
    accepted,        \* the payloads whose push was answered 200
    view_pc,         \* position of the GET /api/system-info-enhanced handler
    view_resp,       \* the response it is building
    view_from,       \* the values of javafx_metrics it has read from
    risk_in,         \* the arguments of compute_risk_and_verdict
    risk_out,        \* its result
    risk_prev,       \* the result of the call before
    cfg_echo,        \* whether that POST sends back the config of a response
    view_at,         \* the number of pushes when that GET arrived
    hist_resp,       \* the last GET /api/metrics-history and its response
    info_resp,       \* the last GET /api/system-info and its result
    process_snapshots, \* the rows of the process_snapshots table, in id order
    procs_resp,      \* the last GET /api/processes and its response
    snap_resp        \* the last /api/log-snapshot and its response

cfg_vars == <<heap, CONFIG, config_file, cfg_pc, cfg_req, cfg_before, cfg_resp, get_seen,
              cfg_echo>>
log_vars == <<logs, now, purge_resp>>
ingest_vars == <<javafx_metrics, system_metrics, metrics_table, push_resp, pushes, accepted,
                 view_pc, view_resp, view_from, view_at>>
risk_vars == <<risk_in, risk_out, risk_prev>>
query_vars == <<hist_resp, info_resp, process_snapshots, procs_resp, snap_resp>>
vars == <<cfg_vars, log_vars, ingest_vars, risk_vars, query_vars>>

----------------------------------------------------------------------------
(* JSON / Python values: a type tag, a number and a string.  A float holds *)
(* its value in tenths.  A "numstr" is a string that spells the integer n. *)

IntV(n) == [t |-> "int", n |-> n, s |-> ""]
FloatV(n) == [t |-> "float", n |-> n, s |-> ""]
StrV(s) == [t |-> "str", n |-> 0, s |-> s]
NumStr(n) == [t |-> "numstr", n |-> n, s |-> ""]
Bool(b) == [t |-> "bool", n |-> IF b THEN 1 ELSE 0, s |-> ""]
Null == [t |-> "null", n |-> 0, s |-> ""]
Absent == [t |-> "absent", n |-> 0, s |-> ""]

Raised == [ok |-> FALSE, val |-> Null]
Returned(x) == [ok |-> TRUE, val |-> x]

IsNumber(x) == x.t \in {"int", "float", "bool"}

\* the value of a number in tenths
Tenths(x) == IF x.t = "float" THEN x.n ELSE x.n * 10

\* bool(x)
Truthy(x) ==
    CASE x.t \in {"int", "float", "bool"} -> x.n # 0
      [] x.t = "str" -> x.s # ""
      [] x.t = "numstr" -> TRUE
      [] OTHER -> FALSE

\* int(x): truncates a float toward zero, parses a string, raises otherwise
PyInt(x) ==
    CASE x.t = "int" -> Returned(x)
      [] x.t = "bool" -> Returned(IntV(x.n))
      [] x.t = "float" ->
            Returned(IntV(IF x.n >= 0 THEN x.n \div 10 ELSE -((-x.n) \div 10)))
      [] x.t = "numstr" -> Returned(IntV(x.n))
      [] OTHER -> Raised

\* min(a, b) and max(a, b) of builtins: the first argument wins a tie;
\* comparing a number with a string or None raises TypeError
PyMin(a, b) ==
    IF ~(IsNumber(a) /\ IsNumber(b)) THEN Raised
    ELSE Returned(IF Tenths(b) < Tenths(a) THEN b ELSE a)

PyMax(a, b) ==
    IF ~(IsNumber(a) /\ IsNumber(b)) THEN Raised
    ELSE Returned(IF Tenths(b) > Tenths(a) THEN b ELSE a)

\* dict.get(key, default) on a dict whose missing keys are held as Absent
Get(d, key, default) == IF d[key] = Absent THEN default ELSE d[key]

----------------------------------------------------------------------------
(* Configuration                                                           *)

Sections == {"monitoring", "thresholds", "logging", "ui"}

ThresholdKeys == <<"cpu_alert", "memory_alert", "disk_alert">>

\* the literal DEFAULT_CONFIG is built from
DefaultSections ==
    [monitoring |-> [enabled |-> Bool(TRUE), interval_seconds |-> IntV(10)],
     thresholds |-> [cpu_alert |-> IntV(80), memory_alert |-> IntV(85),
                     disk_alert |-> IntV(90)],
     logging    |-> [enabled |-> Bool(TRUE), retention_days |-> IntV(90),
                     level |-> StrV("INFO")],
     ui         |-> [theme |-> StrV("Tech Noir"), timezone |-> StrV("GMT"),
                     accent |-> Absent]]

\* DEFAULT_CONFIG: a top-level dict whose values are references to the
\* nested dicts in the heap
DEFAULT_CONFIG == [sec \in Sections |-> sec]

\* dict.copy(): a new top-level dict holding the same references
ShallowCopy(d) == [k \in DOMAIN d |-> d[k]]

\* the value a top-level dict of references stands for
Deref(h, d) == [k \in DOMAIN d |-> h[d[k]]]


\* a section of a submitted config: absent, not a dict, or a dict whose
\* missing keys are held as Absent
NoMonitoring == [enabled |-> Absent, interval_seconds |-> Absent]
NoThresholds == [cpu_alert |-> Absent, memory_alert |-> Absent, disk_alert |-> Absent]
NoLogging == [enabled |-> Absent, retention_days |-> Absent, level |-> Absent]
NoUi == [theme |-> Absent, timezone |-> Absent, accent |-> Absent]

Missing(f) == [kind |-> "absent", f |-> f]
Dict(f) == [kind |-> "dict", f |-> f]

\* the JSON object {} and the JSON value null as a submitted config
EmptyConfig ==
    [kind |-> "object", monitoring |-> Missing(NoMonitoring),
     thresholds |-> Missing(NoThresholds), logging |-> Missing(NoLogging),
     ui |-> Missing(NoUi)]

NullConfig == [EmptyConfig EXCEPT !.kind = "null"]

\* json.dump followed by json.load of a Config: every section a dict
AsRaw(cfg) ==
    [kind |-> "object", monitoring |-> Dict(cfg.monitoring),
     thresholds |-> Dict(cfg.thresholds), logging |-> Dict(cfg.logging),
     ui |-> Dict(cfg.ui)]

\* "<section>" in config and isinstance(config["<section>"], dict)
HasDict(config, sec) == config[sec].kind = "dict"

\* max(lo, min(hi, x))
ClampNoFloor(lo, hi, x) == PyMin(IntV(hi), x)

\* max(lo, min(hi, x - 1))
ClampOffByOne(lo, hi, x) ==
    LET m == PyMin(IntV(hi), [x EXCEPT !.n = @ - (IF x.t = "float" THEN 10 ELSE 1)])
    IN  IF m.ok THEN PyMax(IntV(lo), m.val) ELSE Raised

Clamp(lo, hi, x) ==
    LET m == PyMin(IntV(hi), x)
    IN  IF m.ok THEN PyMax(IntV(lo), m.val) ELSE Raised

\* max(lo, min(hi, int(x)))
ClampInt(lo, hi, x) ==
    LET i == PyInt(x)
    IN  IF i.ok THEN Clamp(lo, hi, i.val) ELSE Raised

Went(h) == [heap |-> h, ok |-> TRUE]
Threw(h) == [heap |-> h, ok |-> FALSE]

\* validate_config, the monitoring section; validated is the shallow copy
ValidateMonitoring(h, validated, config) ==
    IF config.kind = "null" THEN Threw(h)
    ELSE IF ~HasDict(config, "monitoring") THEN Went(h)
    ELSE
        LET r == validated["monitoring"]
            f == config.monitoring.f
            h1 == [h EXCEPT ![r].enabled = Get(f, "enabled", Bool(TRUE))]
            interval == Get(f, "interval_seconds", IntV(10))
            c == Clamp(1, 3600, interval)
        IN  IF c.ok THEN Went([h1 EXCEPT ![r].interval_seconds = c.val])
            ELSE Threw(h1)

\* one pass of the loop over cpu_alert, memory_alert, disk_alert
ThresholdStep(acc, validated, config, key) ==
    IF ~acc.ok \/ config.thresholds.f[key] = Absent THEN acc
    ELSE
        LET r == validated["thresholds"]
            c == ClampInt(0, 100, config.thresholds.f[key])
        IN  IF c.ok THEN Went([acc.heap EXCEPT ![r][key] = c.val])
            ELSE Threw(acc.heap)

\* validate_config, the thresholds section
ValidateThresholds(h, validated, config) ==
    IF ~HasDict(config, "thresholds") THEN Went(h)
    ELSE
        LET a1 == ThresholdStep(Went(h), validated, config, ThresholdKeys[1])
            a2 == ThresholdStep(a1, validated, config, ThresholdKeys[2])
        IN  ThresholdStep(a2, validated, config, ThresholdKeys[3])

\* validate_config, the logging section
ValidateLogging(h, validated, config) ==
    IF ~HasDict(config, "logging") THEN Went(h)
    ELSE
        LET r == validated["logging"]
            f == config.logging.f
            h1 == [h EXCEPT ![r].enabled = Get(f, "enabled", Bool(TRUE))]
            retention == Get(f, "retention_days", IntV(90))
            c == ClampInt(1, 365, retention)
        IN  IF c.ok
            THEN Went([h1 EXCEPT ![r].retention_days = c.val,
                                 ![r].level = Get(f, "level", StrV("INFO"))])
            ELSE Threw(h1)

\* validate_config, the ui section: dict.update
ValidateUi(h, validated, config) ==
    IF ~HasDict(config, "ui") THEN Went(h)
    ELSE
        LET r == validated["ui"]
            f == config.ui.f
        IN  Went([h EXCEPT ![r] = [k \in DOMAIN h[r] |-> Get(f, k, h[r][k])]])

\* validate_config as one call: the heap it leaves, and whether it returned
validate_config(h, config) ==
    LET validated == ShallowCopy(DEFAULT_CONFIG)
        m == ValidateMonitoring(h, validated, config)
        t == IF m.ok THEN ValidateThresholds(m.heap, validated, config) ELSE m
        l == IF t.ok THEN ValidateLogging(t.heap, validated, config) ELSE t
    IN  IF l.ok THEN ValidateUi(l.heap, validated, config) ELSE l


----------------------------------------------------------------------------
(* GDPR log files                                                          *)

MaxDay == 2
Days == 0..MaxDay

Line(level, event) == [level |-> level, event |-> event]

\* cleanup_old_logs: unlink the files last written before the cutoff (a
\* file privara_<d>.log is only ever written on day d)
cleanup_old_logs(h, cfg, lg, day) ==
    LET retention_days == h[cfg["logging"]].retention_days.n
        cutoff == day - retention_days
    IN  [d \in DOMAIN lg |-> IF d < cutoff THEN {} ELSE lg[d]]

\* write_log: nothing when logging is disabled in the live Config, else
\* append to today's file and clean up
write_log(h, cfg, lg, day, level, event) ==
    IF ~Truthy(h[cfg["logging"]].enabled) THEN lg
    ELSE cleanup_old_logs(h, cfg,
             [lg EXCEPT ![day] = @ \cup {Line(level, event)}], day)

\* LOG_DIR.glob("privara_*.log")
LogFiles(lg) == {d \in DOMAIN lg : lg[d] # {}}

\* the rows of the audit_log table: init_db creates it, nothing inserts
audit_log == {}

----------------------------------------------------------------------------
(* The submitted configurations and the config.json files of the model     *)

OutOfRangeConfig ==
    [EmptyConfig EXCEPT
        !.monitoring = Dict([enabled |-> Bool(FALSE), interval_seconds |-> IntV(99999)]),
        !.thresholds = Dict([cpu_alert |-> IntV(150), memory_alert |-> IntV(-5),
                             disk_alert |-> Absent]),
        !.logging = Dict([enabled |-> Absent, retention_days |-> IntV(0),
                          level |-> StrV("DEBUG")])]

BadThresholdConfig ==
    [EmptyConfig EXCEPT
        !.monitoring = Dict([enabled |-> Absent, interval_seconds |-> IntV(0)]),
        !.thresholds = Dict([cpu_alert |-> IntV(50), memory_alert |-> StrV("abc"),
                             disk_alert |-> IntV(70)]),
        !.logging = Dict([enabled |-> Bool(FALSE), retention_days |-> Absent,
                          level |-> Absent])]

FractionalConfig ==
    [EmptyConfig EXCEPT
        !.monitoring = Dict([enabled |-> Absent, interval_seconds |-> FloatV(25)]),
        !.thresholds = Dict([cpu_alert |-> FloatV(855), memory_alert |-> Absent,
                             disk_alert |-> IntV(101)]),
        !.logging = Dict([enabled |-> Bool(FALSE), retention_days |-> NumStr(400),
                          level |-> Absent]),
        !.ui = Dict([theme |-> StrV("Light"), timezone |-> Absent,
                     accent |-> StrV("red")])]

NullRetentionConfig ==
    [EmptyConfig EXCEPT
        !.logging = Dict([enabled |-> Bool(FALSE), retention_days |-> Null,
                          level |-> Absent])]

\* the bodies POSTed to /api/config
RawConfigs ==
    {NullConfig, EmptyConfig, OutOfRangeConfig, BadThresholdConfig,
     FractionalConfig}

\* the bodies POSTed to /api/config while the log files are watched
RetentionConfigs == {OutOfRangeConfig, NullRetentionConfig}

NoFile == [exists |-> FALSE]
File(content) == [exists |-> TRUE, content |-> content]

\* a config.json saved by an earlier run
SavedConfig ==
    AsRaw([DefaultSections EXCEPT !.monitoring.interval_seconds = IntV(30),
                                  !.logging.retention_days = IntV(1)])

InitFiles ==
    {NoFile, File(SavedConfig), File(OutOfRangeConfig), File(NullRetentionConfig)}

\* load_config at import, on the fresh DEFAULT_CONFIG literal.  Its except
\* branch calls write_log before write_log is defined, so a config.json
\* that makes validate_config raise ends the process at import.
load_config(file) ==
    IF file.exists THEN validate_config(DefaultSections, file.content)
    ELSE Went(DefaultSections)


----------------------------------------------------------------------------
(* POST /api/config, GET /api/config and POST /api/logs/delete             *)

\* the value of the module-level CONFIG
LiveConfig == Deref(heap, CONFIG)

NoResponse == [status |-> 0]
NotSeen == [taken |-> FALSE]

\* api_config, POST: new_config = request.json
CfgPost(raw) ==
    /\ cfg_pc = "idle"
    /\ cfg_pc' = "monitoring"
    /\ cfg_req' = raw
    /\ cfg_before' = LiveConfig
    /\ cfg_resp' = NoResponse
    /\ get_seen' = NotSeen
    /\ cfg_echo' = FALSE
    /\ UNCHANGED <<heap, CONFIG, config_file, log_vars, ingest_vars, risk_vars, query_vars>>

\* api_config, POST, by a client that sends back the config of the
\* response it last got: new_config = request.json
CfgPostBack ==
    /\ cfg_pc = "idle"
    /\ cfg_resp.status = 200
    /\ cfg_pc' = "monitoring"
    /\ cfg_req' = AsRaw(cfg_resp.config)
    /\ cfg_before' = LiveConfig
    /\ cfg_resp' = NoResponse
    /\ get_seen' = NotSeen
    /\ cfg_echo' = TRUE
    /\ UNCHANGED <<heap, CONFIG, config_file, log_vars, ingest_vars, risk_vars, query_vars>>

\* api_config, the except branch: log the failure, answer 400
CfgRaise(h) ==
    /\ heap' = h
    /\ logs' = write_log(h, CONFIG, logs, now, "ERROR", "Config update failed")
    /\ cfg_resp' = [status |-> 400]
    /\ cfg_pc' = "idle"
    /\ UNCHANGED CONFIG

\* a section of validate_config that returned: go on to the next one
CfgGoOn(h, next) ==
    /\ heap' = h
    /\ cfg_pc' = next
    /\ UNCHANGED <<CONFIG, logs, cfg_resp>>

\* api_config, POST: one section of validate_config(new_config)
CfgSection(sec, next, r) ==
    /\ cfg_pc = sec
    /\ IF r.ok THEN CfgGoOn(r.heap, next) ELSE CfgRaise(r.heap)
    /\ UNCHANGED <<config_file, cfg_req, cfg_before, get_seen, cfg_echo, now, purge_resp,
                   ingest_vars, risk_vars, query_vars>>

CfgMonitoring ==
    CfgSection("monitoring", "thresholds",
               ValidateMonitoring(heap, ShallowCopy(DEFAULT_CONFIG), cfg_req))

CfgThresholds ==
    CfgSection("thresholds", "logging",
               ValidateThresholds(heap, ShallowCopy(DEFAULT_CONFIG), cfg_req))

CfgLogging ==
    CfgSection("logging", "ui",
               ValidateLogging(heap, ShallowCopy(DEFAULT_CONFIG), cfg_req))

CfgUi ==
    CfgSection("ui", "save",
               ValidateUi(heap, ShallowCopy(DEFAULT_CONFIG), cfg_req))

\* api_config, POST: CONFIG = <the validated dict>, then save_config and
\* the response; open() or json.dump may fail
CfgSave(disk_ok) ==
    /\ cfg_pc = "save"
    /\ CONFIG' = ShallowCopy(DEFAULT_CONFIG)
    /\ IF disk_ok
       THEN /\ config_file' = File(AsRaw(Deref(heap, CONFIG')))
            /\ logs' = write_log(heap, CONFIG',
                          write_log(heap, CONFIG', logs, now, "INFO",
                                    "Configuration saved"),
                          now, "INFO", "Configuration updated via API")
            /\ cfg_resp' = [status |-> 200, config |-> Deref(heap, CONFIG')]
       ELSE /\ config_file' = config_file
            /\ logs' = write_log(heap, CONFIG', logs, now, "ERROR",
                                 "Config save failed")
            /\ cfg_resp' = [status |-> 500]
    /\ cfg_pc' = "idle"
    /\ UNCHANGED <<heap, cfg_req, cfg_before, get_seen, cfg_echo, now, purge_resp,
                   ingest_vars, risk_vars, query_vars>>

\* api_config, GET, arriving while a POST is being handled: jsonify(CONFIG)
CfgGet ==
    /\ cfg_pc # "idle"
    /\ get_seen' = [taken |-> TRUE, config |-> LiveConfig]
    /\ UNCHANGED <<heap, CONFIG, config_file, cfg_pc, cfg_req, cfg_before,
                   cfg_resp, cfg_echo, log_vars, ingest_vars, risk_vars, query_vars>>

\* api_delete_logs: unlink the log files one by one, then write_log the
\* deletion.  kept: the files still there when an unlink raised (none when
\* every unlink went through); the except branch answers 500
DeleteLogs(kept) ==
    /\ IF kept = {}
       THEN LET deleted_count == Cardinality(LogFiles(logs))
                emptied == [d \in DOMAIN logs |-> {}]
            IN  /\ logs' = write_log(heap, CONFIG, emptied, now, "WARNING",
                                     "All logs deleted via user request")
                /\ purge_resp' = [status |-> 200, deleted |-> deleted_count]
       ELSE /\ logs' = [d \in DOMAIN logs |-> IF d \in kept THEN logs[d] ELSE {}]
            /\ purge_resp' = [status |-> 500]
    /\ UNCHANGED <<cfg_vars, now, ingest_vars, risk_vars, query_vars>>

\* midnight
Tick ==
    /\ now < MaxDay
    /\ now' = now + 1
    /\ UNCHANGED <<cfg_vars, logs, purge_resp, ingest_vars, risk_vars, query_vars>>


----------------------------------------------------------------------------
(* MetricsSource: get_system_info and its fallback                         *)

\* get_fake_info, with the five random.uniform draws as u
get_fake_info(u) ==
    [os |-> "Simulated (Fallback)", cpu_percent |-> FloatV(u.cpu),
     memory_percent |-> FloatV(u.mem), memory_available_mb |-> FloatV(u.avail),
     disk_io |-> FloatV(u.read), disk_io_write |-> FloatV(u.write)]

\* get_manjaro_info / get_windows_info / get_linux_generic_info: the psutil
\* readings m, or get_fake_info when psutil raised
native_info(psutil_ok, m, u) ==
    IF psutil_ok
    THEN [os |-> "native", cpu_percent |-> FloatV(m.cpu),
          memory_percent |-> FloatV(m.mem), memory_available_mb |-> FloatV(m.avail),
          disk_io |-> FloatV(m.read), disk_io_write |-> FloatV(m.write)]
    ELSE get_fake_info(u)

\* get_system_info: the sampler chosen at import
get_system_info(psutil_ok, m, u) == native_info(psutil_ok, m, u)

\* readings in tenths: psutil's, and draws at the ends of the uniform bands
Readings ==
    {[cpu |-> 0, mem |-> 1000, avail |-> 0, read |-> 0, write |-> 0],
     [cpu |-> 1000, mem |-> 250, avail |-> 40960, read |-> 123, write |-> 45]}

Draws ==
    {[cpu |-> 50, mem |-> 400, avail |-> 20000, read |-> 100, write |-> 50],
     [cpu |-> 350, mem |-> 700, avail |-> 80000, read |-> 1000, write |-> 500]}

\* write_log letting an error of the file system out to its caller
write_log_uncaught(h, cfg, lg, day, level, event, io_ok) ==
    IF ~Truthy(h[cfg["logging"]].enabled) THEN Returned(lg)
    ELSE IF io_ok THEN Returned(write_log(h, cfg, lg, day, level, event))
    ELSE Raised

\* write_log as a call that may raise.  The test of logging.enabled cannot;
\* the open, the write and cleanup_old_logs run inside the try, whose
\* except prints and returns.  io_ok: whether the file system does them;
\* when it does not, no line is written
write_log_io(h, cfg, lg, day, level, event, io_ok) ==
    IF ~Truthy(h[cfg["logging"]].enabled) THEN Returned(lg)
    ELSE IF io_ok THEN Returned(write_log(h, cfg, lg, day, level, event))
    ELSE Returned(lg)

\* the outcome of a sampler: whether it returned, its value, the log files
Sampled(info, lg) == [ok |-> TRUE, val |-> info, logs |-> lg]
SampleRaised(lg) == [ok |-> FALSE, val |-> Null, logs |-> lg]

\* get_linux_generic_info (the other two samplers differ in the os string):
\* the psutil readings, or in the except branch write_log and get_fake_info
native_sampler(h, cfg, lg, day, psutil_ok, m, u, io_ok) ==
    IF psutil_ok THEN Sampled(native_info(TRUE, m, u), lg)
    ELSE LET w == write_log_io(h, cfg, lg, day, "ERROR", "info read failed", io_ok)
         IN  IF w.ok THEN Sampled(get_fake_info(u), w.val) ELSE SampleRaised(lg)

\* get_system_info with its try / except around the sampler
get_system_info_try(h, cfg, lg, day, psutil_ok, m, u, io_ok) ==
    LET r == native_sampler(h, cfg, lg, day, psutil_ok, m, u, io_ok)
    IN  IF r.ok THEN r
        ELSE LET w == write_log_io(h, cfg, r.logs, day, "ERROR",
                                   "System reading failed", io_ok)
             IN  IF w.ok THEN Sampled(get_fake_info(u), w.val)
                 ELSE SampleRaised(r.logs)

\* api_system_info: info = get_system_info()
SystemInfo(psutil_ok, m, u, io_ok) ==
    LET r == get_system_info_try(heap, CONFIG, logs, now, psutil_ok, m, u, io_ok)
    IN  /\ info_resp' = [called |-> TRUE, psutil_ok |-> psutil_ok, io_ok |-> io_ok,
                         raised |-> ~r.ok, info |-> r.val]
        /\ logs' = r.logs
        /\ UNCHANGED <<cfg_vars, now, purge_resp, ingest_vars, risk_vars, hist_resp,
                       process_snapshots, procs_resp, snap_resp>>

----------------------------------------------------------------------------
(* The JavaFX metrics ingestor                                             *)

\* the keys of a pushed payload the model carries, in the order
\* api_system_info_enhanced reads them; the other enrichment keys are read
\* the same way
PayloadKeys ==
    <<"os_name", "cpu_percent", "memory_percent", "disk_io_total_mbps",
      "process_count", "timestamp">>

\* the key of the response each of them is served under
ResponseKeys ==
    <<"os", "cpu_percent", "memory_percent", "disk_io_mbps",
      "process_count", "timestamp">>

\* the default javafx_metrics.get gives for each
ViewDefaults ==
    <<StrV("Unknown"), IntV(0), IntV(0), IntV(0), IntV(0), IntV(0)>>

required_fields == <<"cpu_percent", "memory_percent", "timestamp">>

NoFields ==
    [os_name |-> Absent, cpu_percent |-> Absent, memory_percent |-> Absent,
     disk_io_total_mbps |-> Absent, process_count |-> Absent, timestamp |-> Absent]

\* request.json: a JSON object, number, array of strings, or null
Object(f) == [kind |-> "object", f |-> f, n |-> 0, elems |-> {}]
Number(n) == [kind |-> "number", f |-> NoFields, n |-> n, elems |-> {}]
Array(elems) == [kind |-> "array", f |-> NoFields, n |-> 0, elems |-> elems]
NullPayload == [kind |-> "null", f |-> NoFields, n |-> 0, elems |-> {}]

\* a JSON array as a value of a key
ListV == [t |-> "list", n |-> 0, s |-> ""]

\* bool(metrics)
PayloadTruthy(m) ==
    CASE m.kind = "object" -> \E k \in DOMAIN m.f : m.f[k] # Absent
      [] m.kind = "number" -> m.n # 0
      [] m.kind = "array" -> m.elems # {}
      [] OTHER -> FALSE

\* field in metrics; a number is not iterable
Contains(m, field) ==
    CASE m.kind = "object" -> Returned(m.f[field] # Absent)
      [] m.kind = "array" -> Returned(field \in m.elems)
      [] OTHER -> Raised

\* all(field in metrics for field in required_fields), left to right
AllRequired(m) ==
    LET c1 == Contains(m, required_fields[1])
        c2 == Contains(m, required_fields[2])
        c3 == Contains(m, required_fields[3])
    IN  IF ~c1.ok THEN Raised
        ELSE IF ~c1.val THEN Returned(FALSE)
        ELSE IF ~c2.val THEN Returned(FALSE)
        ELSE Returned(c3.val)

\* metrics.get(key, default); only a dict has .get
PayloadGet(m, key, default) ==
    IF m.kind = "object" THEN Returned(Get(m.f, key, default)) ELSE Raised

\* sqlite3 binds None, numbers and strings; a list raises
Bindable(x) == x.t # "list"

\* the row api_system_update inserts into system_metrics
MetricsRow(m) ==
    [cpu_percent |-> m.f.cpu_percent, memory_percent |-> m.f.memory_percent,
     disk_io_mbps |-> Get(m.f, "disk_io_total_mbps", IntV(0)),
     process_count |-> Get(m.f, "process_count", IntV(0))]

RowBindable(r) ==
    /\ Bindable(r.cpu_percent) /\ Bindable(r.memory_percent)
    /\ Bindable(r.disk_io_mbps) /\ Bindable(r.process_count)


MaxPushes == 2

FullPayload ==
    Object([os_name |-> StrV("Manjaro Linux"), cpu_percent |-> FloatV(125),
            memory_percent |-> FloatV(400), disk_io_total_mbps |-> FloatV(15),
            process_count |-> IntV(212), timestamp |-> IntV(1)])

BarePayload ==
    Object([NoFields EXCEPT !.cpu_percent = IntV(150), !.memory_percent = IntV(80),
                            !.timestamp = IntV(2)])

NoTimestampPayload ==
    Object([NoFields EXCEPT !.cpu_percent = IntV(50), !.memory_percent = IntV(30),
                            !.os_name = StrV("Windows 11")])

ListCpuPayload ==
    Object([NoFields EXCEPT !.cpu_percent = ListV, !.memory_percent = IntV(30),
                            !.timestamp = IntV(3)])

NamesArray == Array({"cpu_percent", "memory_percent", "timestamp"})

Payloads ==
    {FullPayload, BarePayload, NoTimestampPayload, ListCpuPayload,
     Object(NoFields), Number(5), NullPayload, NamesArray}

\* the pushed fields laid over those of the payload stored before
StoredMerged(current, metrics) ==
    IF current.kind = "object" /\ metrics.kind = "object"
    THEN Object([k \in DOMAIN metrics.f |->
                    IF metrics.f[k] # Absent THEN metrics.f[k] ELSE current.f[k]])
    ELSE metrics

\* javafx_metrics = metrics: what the global holds after the assignment
Stored(current, metrics) == metrics

\* api_system_update, the except branch
PushRaise ==
    /\ logs' = write_log(heap, CONFIG, logs, now, "ERROR",
                         "Failed to process JavaFX metrics")
    /\ UNCHANGED <<system_metrics, metrics_table, accepted>>

\* api_system_update from "Store metrics in memory" on
PushStore(metrics, db_ok) ==
    /\ javafx_metrics' = Stored(javafx_metrics, metrics)
    /\ IF metrics.kind # "object"
       THEN /\ PushRaise
            /\ push_resp' = [status |-> 500, payload |-> metrics,
                             before |-> javafx_metrics, rows_before |-> system_metrics]
       ELSE LET logged == write_log(heap, CONFIG, logs, now, "INFO",
                                    "JavaFX metrics received")
                row == MetricsRow(metrics)
            IN  IF db_ok /\ RowBindable(row)
                THEN /\ logs' = logged
                     /\ metrics_table' = TRUE
                     /\ system_metrics' = Append(system_metrics, row)
                     /\ accepted' = accepted \cup {metrics}
                     /\ push_resp' = [status |-> 200, payload |-> metrics,
                                      before |-> javafx_metrics,
                                      rows_before |-> system_metrics]
                ELSE /\ logs' = write_log(heap, CONFIG, logged, now, "ERROR",
                                          "Failed to process JavaFX metrics")
                     /\ metrics_table' = (metrics_table \/ db_ok)
                     /\ UNCHANGED <<system_metrics, accepted>>
                     /\ push_resp' = [status |-> 500, payload |-> metrics,
                                      before |-> javafx_metrics,
                                      rows_before |-> system_metrics]

\* api_system_update: metrics = request.json; db_ok: whether sqlite3 does
\* the connect, create, insert and commit.  The CREATE TABLE IF NOT EXISTS
\* is committed on its own, also when the insert after it raises
Push(metrics, db_ok) ==
    /\ pushes < MaxPushes
    /\ pushes' = pushes + 1
    /\ IF ~PayloadTruthy(metrics)
       THEN /\ push_resp' = [status |-> 400, payload |-> metrics,
                             before |-> javafx_metrics, rows_before |-> system_metrics]
            /\ UNCHANGED <<javafx_metrics, system_metrics, metrics_table, accepted, logs>>
       ELSE LET all_present == AllRequired(metrics)
            IN  IF ~all_present.ok
                THEN /\ PushRaise
                     /\ push_resp' = [status |-> 500, payload |-> metrics,
                                      before |-> javafx_metrics,
                                      rows_before |-> system_metrics]
                     /\ UNCHANGED javafx_metrics
                ELSE IF ~all_present.val
                THEN /\ push_resp' = [status |-> 400, payload |-> metrics,
                                      before |-> javafx_metrics,
                                      rows_before |-> system_metrics]
                     /\ UNCHANGED <<javafx_metrics, system_metrics, metrics_table, accepted, logs>>
                ELSE PushStore(metrics, db_ok)
    /\ UNCHANGED <<cfg_vars, now, purge_resp, view_pc, view_resp, view_from, view_at,
                   risk_vars, query_vars>>

----------------------------------------------------------------------------
(* GET /api/system-info-enhanced                                           *)

JavaFXSource == "JavaFX Monitor (OSHI)"

\* the display shape of one payload: what the handler returns when
\* javafx_metrics is the same dict at every read
EnhancedShape(m) ==
    [i \in 1..Len(PayloadKeys) |-> Get(m.f, PayloadKeys[i], ViewDefaults[i])]

\* api_system_info_enhanced: the test of javafx_metrics, and the fallback
\* to get_system_info when it is empty
ViewStart(psutil_ok, m, u) ==
    /\ view_pc = 0
    /\ view_from' = {}
    /\ view_at' = pushes
    /\ IF PayloadTruthy(javafx_metrics)
       THEN /\ view_pc' = 1
            /\ view_resp' = [status |-> 0, source |-> JavaFXSource, body |-> <<>>]
            /\ UNCHANGED logs
       ELSE /\ view_pc' = 0
            /\ view_resp' = [status |-> 200, source |-> "get_system_info",
                             body |-> get_system_info(psutil_ok, m, u)]
            /\ logs' = IF psutil_ok THEN logs
                       ELSE write_log(heap, CONFIG, logs, now, "ERROR",
                                      "info read failed")
    /\ UNCHANGED <<cfg_vars, now, purge_resp, javafx_metrics, system_metrics, metrics_table,
                   push_resp, pushes, accepted, risk_vars, query_vars>>

\* api_system_info_enhanced: one javafx_metrics.get(key, default) of the
\* dict literal, reading the global anew; an exception goes to Flask's
\* 500 handler
ViewRead ==
    /\ view_pc \in 1..Len(PayloadKeys)
    /\ LET r == PayloadGet(javafx_metrics, PayloadKeys[view_pc], ViewDefaults[view_pc])
       IN  IF r.ok
           THEN /\ view_resp' =
                       [status |-> IF view_pc = Len(PayloadKeys) THEN 200 ELSE 0,
                        source |-> JavaFXSource,
                        body |-> Append(view_resp.body, r.val)]
                /\ view_from' = view_from \cup {javafx_metrics}
                /\ view_pc' = IF view_pc = Len(PayloadKeys) THEN 0 ELSE view_pc + 1
                /\ UNCHANGED logs
           ELSE /\ view_resp' = [status |-> 500, source |-> "server_error",
                                 body |-> <<>>]
                /\ view_from' = view_from
                /\ view_pc' = 0
                /\ logs' = write_log(heap, CONFIG, logs, now, "ERROR", "Server error")
    /\ UNCHANGED view_at
    /\ UNCHANGED <<cfg_vars, now, purge_resp, javafx_metrics, system_metrics, metrics_table,
                   push_resp, pushes, accepted, risk_vars, query_vars>>

----------------------------------------------------------------------------
(* GET /api/metrics-history                                                *)

\* LIMIT 100
HistoryLimit == 100

\* privara.db outlives the process: the system_metrics rows an earlier run
\* of the server left in it, told apart by their process_count
OldCount == 99

OldRows ==
    [i \in 1..OldCount |->
        [cpu_percent |-> FloatV(100), memory_percent |-> FloatV(500),
         disk_io_mbps |-> IntV(0), process_count |-> IntV(i)]]

StoredTables == {<<>>, OldRows}

\* SELECT ... FROM system_metrics ORDER BY id DESC LIMIT limit, on the rows
\* in id order (AUTOINCREMENT: the id of a row is its place, no row is ever
\* deleted); ts, set by the database, is left out of the rows
SelectNewest(rows, limit) ==
    LET count == IF Len(rows) < limit THEN Len(rows) ELSE limit
    IN  [k \in 1..count |-> rows[Len(rows) + 1 - k]]

\* api_metrics_history; db_ok: whether sqlite3 does the connect and the
\* select.  init_db does not create system_metrics; api_system_update does:
\* until then the select raises "no such table"
History(db_ok) ==
    /\ IF db_ok /\ metrics_table
       THEN LET history == SelectNewest(system_metrics, HistoryLimit)
            IN  hist_resp' = [status |-> 200, history |-> history,
                              count |-> Len(history), table |-> system_metrics,
                              db_ok |-> db_ok]
       ELSE hist_resp' = [status |-> 500, history |-> <<>>, count |-> 0,
                          table |-> system_metrics, db_ok |-> db_ok]
    /\ UNCHANGED <<cfg_vars, log_vars, ingest_vars, risk_vars, info_resp,
                   process_snapshots, procs_resp, snap_resp>>

----------------------------------------------------------------------------
(* The server                                                              *)

NoCall == [called |-> FALSE]

\* the state after import and the three write_log calls of __main__, on a
\* privara.db whose system_metrics table holds rows
Boot(rows) ==
    /\ \E file \in InitFiles :
          LET loaded == load_config(file)
          IN  /\ loaded.ok
              /\ config_file = file
              /\ heap = loaded.heap
    /\ CONFIG = ShallowCopy(DEFAULT_CONFIG)
    /\ now = 0
    /\ logs = write_log(heap, CONFIG,
                  write_log(heap, CONFIG,
                      write_log(heap, CONFIG, [d \in Days |-> {}], now, "INFO",
                                "Database initialized"),
                      now, "INFO", "Privara HIDS v3.0 started"),
                  now, "INFO", "Available at http://localhost:8000")
    /\ cfg_pc = "idle"
    /\ cfg_req = EmptyConfig
    /\ cfg_before = LiveConfig
    /\ cfg_resp = NoResponse
    /\ get_seen = NotSeen
    /\ purge_resp = NoResponse
    /\ javafx_metrics = Object(NoFields)
    /\ system_metrics = rows
    /\ metrics_table = (rows # <<>>)
    /\ push_resp = NoResponse
    /\ pushes = 0
    /\ accepted = {}
    /\ view_pc = 0
    /\ view_resp = NoResponse
    /\ view_from = {}
    /\ risk_in = NoCall
    /\ risk_out = NoCall
    /\ risk_prev = NoCall
    /\ cfg_echo = FALSE
    /\ view_at = 0
    /\ hist_resp = NoResponse
    /\ info_resp = NoCall
    /\ process_snapshots = <<>>
    /\ procs_resp = NoResponse
    /\ snap_resp = NoResponse

\* a server started on an empty privara.db
Init == Boot(<<>>)

\* a server started on the privara.db of an earlier run
InitHistory == \E rows \in StoredTables : Boot(rows)

\* the configuration and its readers
NextConfig ==
    \/ \E raw \in RawConfigs : CfgPost(raw)
    \/ CfgPostBack
    \/ CfgMonitoring
    \/ CfgThresholds
    \/ CfgLogging
    \/ CfgUi
    \/ \E disk_ok \in BOOLEAN : CfgSave(disk_ok)
    \/ CfgGet

SpecConfig == Init /\ [][NextConfig]_vars

\* the log files: written by the configuration updates, cleaned up, purged
NextLogs ==
    \/ \E raw \in RetentionConfigs : CfgPost(raw)
    \/ CfgMonitoring
    \/ CfgThresholds
    \/ CfgLogging
    \/ CfgUi
    \/ \E disk_ok \in BOOLEAN : CfgSave(disk_ok)
    \/ \E kept \in SUBSET LogFiles(logs) : DeleteLogs(kept)
    \/ Tick

SpecLogs == Init /\ [][NextLogs]_vars

\* the ingestor and the enhanced view
NextIngest ==
    \/ \E metrics \in Payloads, db_ok \in BOOLEAN : Push(metrics, db_ok)
    \/ \E psutil_ok \in BOOLEAN, m \in Readings, u \in Draws :
          ViewStart(psutil_ok, m, u)
    \/ ViewRead

SpecIngest == Init /\ [][NextIngest]_vars

\* the metrics source, under every state of the live Config and the log
\* directory
NextSource ==
    \/ \E raw \in RetentionConfigs : CfgPost(raw)
    \/ CfgMonitoring
    \/ CfgThresholds
    \/ CfgLogging
    \/ CfgUi
    \/ \E disk_ok \in BOOLEAN : CfgSave(disk_ok)
    \/ Tick
    \/ \E psutil_ok \in BOOLEAN, m \in Readings, u \in Draws, io_ok \in BOOLEAN :
          SystemInfo(psutil_ok, m, u, io_ok)

SpecSource == Init /\ [][NextSource]_vars

\* the metrics history: written by the pushes, read by the history query
NextHistory ==
    \/ \E metrics \in Payloads, db_ok \in BOOLEAN : Push(metrics, db_ok)
    \/ \E db_ok \in BOOLEAN : History(db_ok)

SpecHistory == InitHistory /\ [][NextHistory]_vars


----------------------------------------------------------------------------
(* Khepri-ML risk scoring                                                  *)

\* a str as the sequence of its characters; name is a str or None
Name(chars) == [some |-> TRUE, chars |-> chars]
NoName == [some |-> FALSE, chars |-> <<>>]

UpperCase ==
    <<"A", "B", "C", "D", "E", "F", "G", "H", "I", "J", "K", "L", "M",
      "N", "O", "P", "Q", "R", "S", "T", "U", "V", "W", "X", "Y", "Z">>

LowerCase ==
    <<"a", "b", "c", "d", "e", "f", "g", "h", "i", "j", "k", "l", "m",
      "n", "o", "p", "q", "r", "s", "t", "u", "v", "w", "x", "y", "z">>

\* str.lower()
Lower(chars) ==
    [i \in 1..Len(chars) |->
        IF \E j \in 1..Len(UpperCase) : UpperCase[j] = chars[i]
        THEN LowerCase[CHOOSE j \in 1..Len(UpperCase) : UpperCase[j] = chars[i]]
        ELSE chars[i]]

\* k in text, for two str
IsSubstring(k, text) ==
    \E i \in 1..(Len(text) - Len(k) + 1) : SubSeq(text, i, i + Len(k) - 1) = k

suspicious_keywords ==
    << <<"m", "i", "n", "e", "r">>, <<"c", "r", "y", "p", "t">>, <<"r", "a", "t">>,
       <<"r", "e", "m", "o", "t", "e">>, <<"s", "h", "e", "l", "l">>,
       <<"p", "o", "w", "e", "r", "s", "h", "e", "l", "l">>,
       <<"c", "m", "d", ".", "e", "x", "e">>, <<"n", "c", ".", "e", "x", "e">>,
       <<"k", "e", "y", "l", "o", "g">>, <<"e", "x", "p", "l", "o", "i", "t">> >>

\* the if / elif / else chain over the score, with the labels swapped
VerdictSwapped(score) ==
    IF score >= 70 THEN "Critical"
    ELSE IF score >= 40 THEN "Elevated"
    ELSE IF score >= 10 THEN "Suspicious"
    ELSE "Benign"

\* the if / elif / else chain over the score
Verdict(score) ==
    IF score >= 70 THEN "Critical"
    ELSE IF score >= 40 THEN "Suspicious"
    ELSE IF score >= 10 THEN "Elevated"
    ELSE "Benign"

\* the score with the cpu tiers adding up instead of excluding each other
RiskScoreCumulative(name, cpu, mem) ==
    LET lower_name == Lower(IF name.some THEN name.chars ELSE <<>>)
        s1 == IF \E i \in 1..Len(suspicious_keywords) :
                     IsSubstring(suspicious_keywords[i], lower_name)
              THEN 40 ELSE 0
        s2 == s1 + (IF Truthy(cpu) /\ Tenths(cpu) > 800 THEN 40 ELSE 0)
                 + (IF Truthy(cpu) /\ Tenths(cpu) > 400 THEN 20 ELSE 0)
        s3 == IF Truthy(mem) /\ Tenths(mem) > 200 THEN s2 + 20 ELSE s2
    IN  IF s3 < 100 THEN s3 ELSE 100

\* compute_risk_and_verdict up to score = min(score, 100); cpu and mem are
\* numbers or None
RiskScore(name, cpu, mem) ==
    LET lower_name == Lower(IF name.some THEN name.chars ELSE <<>>)
        s1 == IF \E i \in 1..Len(suspicious_keywords) :
                     IsSubstring(suspicious_keywords[i], lower_name)
              THEN 40 ELSE 0
        s2 == IF Truthy(cpu)
              THEN IF Tenths(cpu) > 800 THEN s1 + 40
                   ELSE IF Tenths(cpu) > 400 THEN s1 + 20
                   ELSE s1
              ELSE s1
        s3 == IF Truthy(mem) /\ Tenths(mem) > 200 THEN s2 + 20 ELSE s2
    IN  IF s3 < 100 THEN s3 ELSE 100

compute_risk_and_verdict(name, cpu, mem) ==
    LET score == RiskScore(name, cpu, mem)
    IN  [called |-> TRUE, score |-> score, verdict |-> Verdict(score),
         agent |-> "Khepri-ML v0.2"]

ProcessNames ==
    {NoName,
     Name(<<"n", "o", "t", "e", "p", "a", "d", ".", "e", "x", "e">>),
     Name(<<"P", "o", "w", "e", "r", "S", "h", "e", "l", "l", ".", "e", "x", "e">>),
     Name(<<"x", "m", "r", "-", "m", "i", "n", "e", "r", ".", "e", "x", "e">>),
     Name(<<"C", "M", "D", ".", "E", "X", "E">>),
     Name(<<"p", "i", "r", "a", "t", "e">>)}

\* psutil's cpu_percent and memory_percent: a float, or None
CpuValues ==
    {Null, FloatV(0), FloatV(50), FloatV(400), FloatV(500), FloatV(800),
     FloatV(850)}

MemValues == {Null, FloatV(50), FloatV(100), FloatV(200), FloatV(250)}

\* one call of compute_risk_and_verdict
Score(name, cpu, mem) ==
    /\ risk_in' = [called |-> TRUE, name |-> name, cpu |-> cpu, mem |-> mem]
    /\ risk_out' = compute_risk_and_verdict(name, cpu, mem)
    /\ risk_prev' = risk_out
    /\ UNCHANGED <<cfg_vars, log_vars, ingest_vars, query_vars>>

NextRisk ==
    \E name \in ProcessNames, cpu \in CpuValues, mem \in MemValues :
        Score(name, cpu, mem)

\* a server started without a config.json
InitRisk == Init /\ config_file = NoFile

SpecRisk == InitRisk /\ [][NextRisk]_vars

----------------------------------------------------------------------------
(* GET /api/processes and /api/log-snapshot                                *)

\* one process as psutil.process_iter(['pid', 'name', 'cpu_percent',
\* 'memory_percent']) meets it.  exam "ok": it yields the process with its
\* info, a field psutil was denied being None; "gone": the process exited,
\* psutil catches NoSuchProcess and goes on to the next; "error": another
\* exception (an OSError reading the process) comes out of the iterator
Proc(pid, name, cpu, mem) ==
    [pid |-> pid, name |-> name, cpu_percent |-> cpu, memory_percent |-> mem,
     exam |-> "ok"]

Gone(p) == [p EXCEPT !.exam = "gone"]
Failing(p) == [p EXCEPT !.exam = "error"]

\* bool(info['name'])
NameTruthy(name) == name.some /\ name.chars # <<>>

\* x or 0
OrZero(x) == IF Truthy(x) THEN x ELSE IntV(0)

\* the dict api_processes appends for one process
ProcEntry(info) ==
    LET risk == compute_risk_and_verdict(info.name, info.cpu_percent,
                                         info.memory_percent)
    IN  [pid |-> info.pid, name |-> info.name, cpu |-> OrZero(info.cpu_percent),
         mem |-> OrZero(info.memory_percent), risk_score |-> risk.score,
         verdict |-> risk.verdict, agent |-> risk.agent]

Looped(out, raised) == [out |-> out, raised |-> raised]

RECURSIVE EnumerateFrom(_, _, _)
\* the for loop of api_processes from the i-th process on, inside the one
\* try that surrounds it: the entries appended, and whether it raised
EnumerateFrom(table, i, procs) ==
    IF i > Len(table) THEN Looped(procs, FALSE)
    ELSE CASE table[i].exam = "error" -> Looped(procs, TRUE)
           [] table[i].exam = "gone" -> EnumerateFrom(table, i + 1, procs)
           [] OTHER ->
                IF NameTruthy(table[i].name)
                THEN EnumerateFrom(table, i + 1, Append(procs, ProcEntry(table[i])))
                ELSE EnumerateFrom(table, i + 1, procs)

\* api_processes: the except branch logs, and procs is returned either way
Processes(table) ==
    LET r == EnumerateFrom(table, 1, <<>>)
    IN  /\ procs_resp' = [status |-> 200, procs |-> r.out, table |-> table]
        /\ logs' = IF r.raised
                   THEN write_log(heap, CONFIG, logs, now, "ERROR",
                                  "Process enumeration failed")
                   ELSE logs
        /\ UNCHANGED <<cfg_vars, now, purge_resp, ingest_vars, risk_vars, hist_resp,
                       info_resp, process_snapshots, snap_resp>>

\* the values api_log_snapshot binds for one process
SnapshotRow(info) ==
    [pid |-> info.pid, name |-> info.name, cpu |-> info.cpu_percent,
     mem |-> info.memory_percent]

RECURSIVE InsertFrom(_, _, _)
\* the for loop of api_log_snapshot from the i-th process on: the rows
\* inserted in the open transaction, and whether it raised.  The column
\* name is TEXT NOT NULL: binding None raises IntegrityError
InsertFrom(table, i, rows) ==
    IF i > Len(table) THEN Looped(rows, FALSE)
    ELSE CASE table[i].exam = "error" -> Looped(rows, TRUE)
           [] table[i].exam = "gone" -> InsertFrom(table, i + 1, rows)
           [] OTHER ->
                IF table[i].name.some
                THEN InsertFrom(table, i + 1, Append(rows, SnapshotRow(table[i])))
                ELSE Looped(rows, TRUE)

\* the number of process_snapshots rows the model lets the table grow to
MaxRows == 4

\* api_log_snapshot; db_ok: whether sqlite3 does the connect and the commit.
\* On an exception the connection is dropped without a commit and its
\* transaction is rolled back
Snapshot(table, db_ok) ==
    /\ Len(process_snapshots) + Len(table) <= MaxRows
    /\ LET r == InsertFrom(table, 1, <<>>)
       IN  IF db_ok /\ ~r.raised
           THEN /\ process_snapshots' = process_snapshots \o r.out
                /\ logs' = write_log(heap, CONFIG, logs, now, "INFO",
                                     "Process snapshot logged to database")
                /\ snap_resp' = [status |-> 200, table |-> table, db_ok |-> db_ok,
                                 rows_before |-> process_snapshots]
           ELSE /\ UNCHANGED <<process_snapshots, logs>>
                /\ snap_resp' = [status |-> 500, table |-> table, db_ok |-> db_ok,
                                 rows_before |-> process_snapshots]
    /\ UNCHANGED <<cfg_vars, now, purge_resp, ingest_vars, risk_vars, hist_resp,
                   info_resp, procs_resp>>

Notepad ==
    Proc(101, Name(<<"n", "o", "t", "e", "p", "a", "d", ".", "e", "x", "e">>),
         FloatV(5), FloatV(10))

Miner ==
    Proc(202, Name(<<"x", "m", "r", "-", "m", "i", "n", "e", "r", ".", "e", "x", "e">>),
         FloatV(850), FloatV(250))

\* a process psutil is denied the name and the figures of
Denied == Proc(4, NoName, Null, Null)

\* the process lists of the model, in the order process_iter goes through
ProcessTables ==
    {<<>>, <<Notepad>>, <<Notepad, Miner>>, <<Notepad, Gone(Miner)>>,
     <<Notepad, Denied, Miner>>, <<Failing(Notepad), Miner>>,
     <<Notepad, Failing(Denied), Miner>>}

\* the process list and its snapshots
NextProcs ==
    \/ \E table \in ProcessTables : Processes(table)
    \/ \E table \in ProcessTables, db_ok \in BOOLEAN : Snapshot(table, db_ok)

SpecProcs == Init /\ [][NextProcs]_vars


----------------------------------------------------------------------------
(* Properties of the configuration                                         *)

\* what validate_config returns for config on the DEFAULT_CONFIG literal
Overlay(config) == Deref(validate_config(DefaultSections, config).heap, DEFAULT_CONFIG)

\* C1: the result of validate_config(raw) depends on raw alone: it is the
\* fixed defaults overlaid with the fields of raw, whatever was validated
\* before; in particular the empty input gives the original defaults.
C1_ResultDependsOnRawAlone ==
    cfg_resp.status = 200 => cfg_resp.config = Overlay(cfg_req)

\* an empty body has been validated and answered
C1_Witness == cfg_resp.status = 200 /\ cfg_req = EmptyConfig

\* C2: a POST /api/config answered 400 or 500 leaves every value of the
\* live Config as it was before the request.
C2_ErrorLeavesConfigUnchanged ==
    cfg_resp.status \in {400, 500} => LiveConfig = cfg_before

\* a POST has been answered with an error
C2_Witness == cfg_resp.status \in {400, 500}

\* C7: a GET /api/config served while a POST /api/config is handled shows
\* the complete Config from before the update or the complete one after it.
C7_ReaderSeesBeforeOrAfter ==
    (cfg_pc = "idle" /\ cfg_resp.status = 200 /\ get_seen.taken)
        => get_seen.config \in {cfg_before, LiveConfig}

\* a GET was served during an update that went through
C7_Witness == cfg_pc = "idle" /\ cfg_resp.status = 200 /\ get_seen.taken

InBounds(x, lo, hi) == IsNumber(x) /\ lo * 10 <= Tenths(x) /\ Tenths(x) <= hi * 10

\* C8: in every reachable state the live Config has interval_seconds in
\* [1,3600], each threshold in [0,100] and retention_days in [1,365].
C8_ConfigWithinBounds ==
    /\ InBounds(LiveConfig.monitoring.interval_seconds, 1, 3600)
    /\ \A i \in 1..Len(ThresholdKeys) :
          InBounds(LiveConfig.thresholds[ThresholdKeys[i]], 0, 100)
    /\ InBounds(LiveConfig.logging.retention_days, 1, 365)

\* an update with values beyond both ends of the ranges went through
C8_Witness ==
    /\ cfg_resp.status = 200
    /\ cfg_req = OutOfRangeConfig
    /\ LiveConfig.monitoring.interval_seconds = IntV(3600)
    /\ LiveConfig.thresholds.cpu_alert = IntV(100)
    /\ LiveConfig.thresholds.memory_alert = IntV(0)
    /\ LiveConfig.logging.retention_days = IntV(1)

\* C14: validating a validated config returns it unchanged: a config that
\* validate_config returned, sent back, is validated to itself, and in every
\* state validate_config of the live Config returns and changes nothing.
C14_ValidateIdempotent ==
    /\ (cfg_pc = "idle" /\ cfg_echo)
          => (cfg_resp.status # 400
              /\ (cfg_resp.status = 200 => AsRaw(cfg_resp.config) = cfg_req))
    /\ LET again == validate_config(heap, AsRaw(LiveConfig))
       IN  again.ok /\ again.heap = heap

\* the result of validating a config with fractional, out-of-range and
\* string-spelled numbers has been sent back and validated again
C14_Witness ==
    /\ cfg_pc = "idle" /\ cfg_echo /\ cfg_resp.status = 200
    /\ cfg_resp.config.monitoring.interval_seconds = FloatV(25)
    /\ cfg_resp.config.thresholds.cpu_alert = IntV(85)
    /\ cfg_resp.config.thresholds.disk_alert = IntV(100)
    /\ cfg_resp.config.logging.retention_days = IntV(365)

----------------------------------------------------------------------------
(* Properties of the log purge                                             *)

PurgeLine == Line("WARNING", "All logs deleted via user request")

\* the audit trail: the lines of the log files and the audit_log table
AuditTrail(lg) == UNION {lg[d] : d \in DOMAIN lg} \cup audit_log

\* C3: after a purge that went through, no log artifact is left and the
\* entry recording the purge is in the audit trail.
C3_PurgeLeavesNothingAndIsRecorded ==
    [][(purge_resp' # purge_resp /\ purge_resp'.status = 200)
          => (LogFiles(logs') = {} /\ PurgeLine \in AuditTrail(logs'))]_vars

\* a purge that deleted a file has been answered
C3_Witness == purge_resp.status = 200 /\ purge_resp.deleted > 0

----------------------------------------------------------------------------
(* Properties of the ingestor and the enhanced view                        *)

\* a payload without one of the required fields
LacksRequired(m) ==
    \/ m.kind # "object"
    \/ \E i \in 1..Len(required_fields) : m.f[required_fields[i]] = Absent

\* C4: a payload lacking a required field is answered 400, and leaves the
\* stored payload and the metrics history as they were.
C4_MissingFieldsRejected ==
    (push_resp.status # 0 /\ LacksRequired(push_resp.payload))
        => /\ push_resp.status = 400
           /\ javafx_metrics = push_resp.before
           /\ system_metrics = push_resp.rows_before

\* a payload without timestamp has been pushed
C4_Witness == push_resp.status # 0 /\ push_resp.payload = NoTimestampPayload

\* C5: an enhanced view is the result of get_system_info while no push has
\* been accepted, and is built from accepted payloads once one has been.
C5_PushTakesPriorityOnceAccepted ==
    [][(view_resp' # view_resp /\ view_resp'.status = 200)
          => IF accepted = {}
             THEN view_resp'.source = "get_system_info"
             ELSE view_resp'.source = JavaFXSource /\ view_from' \subseteq accepted]_vars

\* a view has been served from a pushed payload
C5_Witness == view_resp.status = 200 /\ view_resp.source = JavaFXSource

\* C6: every field of one enhanced-view response comes from the same
\* single payload.
C6_ViewFromOnePayload ==
    (view_resp.status = 200 /\ view_resp.source = JavaFXSource)
        => \E m \in view_from : view_resp.body = EnhancedShape(m)

\* a view has been served while the stored payload was replaced
C6_Witness ==
    view_resp.status = 200 /\ view_resp.source = JavaFXSource
        /\ Cardinality(view_from) > 1

\* a percentage: a number in [0,100]
Percentage(x) == IsNumber(x) /\ Tenths(x) >= 0 /\ Tenths(x) <= 1000

\* C13: every enhanced view served, from a pushed payload or from
\* get_system_info, has cpu_percent and memory_percent within [0,100].
C13_ServedPercentagesClamped ==
    view_resp.status = 200 =>
        IF view_resp.source = JavaFXSource
        THEN Percentage(view_resp.body[2]) /\ Percentage(view_resp.body[3])
        ELSE /\ Percentage(view_resp.body.cpu_percent)
             /\ Percentage(view_resp.body.memory_percent)

\* a view has been served from an accepted payload with cpu_percent 150
C13_Witness ==
    /\ view_resp.status = 200 /\ view_resp.source = JavaFXSource
    /\ view_from = {BarePayload} /\ BarePayload \in accepted
    /\ view_resp.body[2] = IntV(150)

\* C15: an enhanced view asked for after the last push, that push having
\* been accepted, is the display shape of that payload alone: each field it
\* lacks has its default, whatever the payloads before it held.
C15_LastWriteWins ==
    (view_resp.status = 200 /\ view_resp.source = JavaFXSource
        /\ view_at = pushes /\ push_resp.status = 200)
        => view_resp.body = EnhancedShape(push_resp.payload)

\* a view served after a full payload and then a bare one were accepted
C15_Witness ==
    /\ view_resp.status = 200 /\ view_resp.source = JavaFXSource
    /\ view_at = pushes /\ push_resp.status = 200
    /\ push_resp.before = FullPayload /\ push_resp.payload = BarePayload
    /\ FullPayload \in accepted
    /\ view_resp.body[1] = StrV("Unknown")

\* C16: a push answered 500 leaves the stored payload as it was before the
\* request.
C16_FailedPushNotStored ==
    push_resp.status = 500 => javafx_metrics = push_resp.before

\* a well-formed payload whose history insert failed
C16_Witness ==
    /\ push_resp.status = 500 /\ push_resp.payload = FullPayload
    /\ push_resp.before # FullPayload

----------------------------------------------------------------------------
(* Properties of the metrics source                                        *)

\* the bands of the synthetic generator, in tenths
WithinBands(info) ==
    /\ info.os = "Simulated (Fallback)"
    /\ info.cpu_percent.t = "float" /\ info.cpu_percent.n \in 50..350
    /\ info.memory_percent.t = "float" /\ info.memory_percent.n \in 400..700
    /\ info.memory_available_mb.t = "float"
    /\ info.memory_available_mb.n \in 20000..80000
    /\ info.disk_io.t = "float" /\ info.disk_io.n \in 100..1000
    /\ info.disk_io_write.t = "float" /\ info.disk_io_write.n \in 50..500

\* C12: get_system_info never raises, whatever the live Config and the log
\* directory are; when the native sampler fails it returns a synthetic
\* value within the bands.
C12_SourceNeverRaises ==
    info_resp.called =>
        /\ ~info_resp.raised
        /\ ~info_resp.psutil_ok => WithinBands(info_resp.info)

\* the sampler failed while logging was enabled and the log directory
\* could not be written
C12_Witness ==
    /\ info_resp.called /\ ~info_resp.psutil_ok /\ ~info_resp.io_ok
    /\ Truthy(LiveConfig.logging.enabled)
    /\ info_resp.info.os = "Simulated (Fallback)"

----------------------------------------------------------------------------
(* Properties of the metrics history                                       *)

\* C11: every push answered 200 adds exactly one row to the history and no
\* other push adds any; the history query, the database answering, returns
\* min(N, 100) of the N rows, and read back to front they are the newest
\* rows in insertion order.
C11_HistoryNewestFirst ==
    /\ push_resp.status = 200
          => system_metrics = Append(push_resp.rows_before, MetricsRow(push_resp.payload))
    /\ push_resp.status \in {400, 500} => system_metrics = push_resp.rows_before
    /\ (hist_resp.status # 0 /\ hist_resp.db_ok) =>
          LET N == Len(hist_resp.table)
              count == hist_resp.count
          IN  /\ hist_resp.status = 200
              /\ count = (IF N < HistoryLimit THEN N ELSE HistoryLimit)
              /\ Len(hist_resp.history) = count
              /\ \A k \in 1..count :
                    hist_resp.history[count + 1 - k] = hist_resp.table[N - count + k]

\* the history was queried before any push was accepted
C11_Witness ==
    /\ hist_resp.status # 0 /\ hist_resp.db_ok
    /\ hist_resp.table = <<>>
    /\ accepted = {}

----------------------------------------------------------------------------
(* Properties of the process list and its snapshots                        *)

\* the processes of a list that are alive and were examined or could not be
Live(table) == SelectSeq(table, LAMBDA p : p.exam # "gone")

\* C17: whatever happens while one process is examined, every other live
\* process with a resolvable name is in the result of GET /api/processes
\* with its score.
C17_FailureSkipsOneEntry ==
    procs_resp.status = 200 =>
        \A i \in 1..Len(procs_resp.table) :
            LET p == procs_resp.table[i]
            IN  (p.exam = "ok" /\ NameTruthy(p.name))
                    => \E j \in 1..Len(procs_resp.procs) :
                           procs_resp.procs[j] = ProcEntry(p)

\* the examination of a process failed with a named live process after it
C17_Witness ==
    /\ procs_resp.status = 200
    /\ \E i, j \in 1..Len(procs_resp.table) :
          /\ i < j
          /\ procs_resp.table[i].exam = "error"
          /\ procs_resp.table[j].exam = "ok"
          /\ NameTruthy(procs_resp.table[j].name)

\* C18: a snapshot that the database and the enumeration let through
\* succeeds and appends one row per live process, nameless ones included;
\* a failed snapshot appends nothing; stored rows stay as they are.
C18_OneRowPerLiveProcess ==
    /\ (snap_resp.status # 0 /\ snap_resp.db_ok
            /\ \A i \in 1..Len(snap_resp.table) : snap_resp.table[i].exam # "error")
          => snap_resp.status = 200
    /\ snap_resp.status = 200
          => process_snapshots =
                snap_resp.rows_before \o
                    [i \in 1..Len(Live(snap_resp.table)) |->
                        SnapshotRow(Live(snap_resp.table)[i])]
    /\ snap_resp.status = 500 => process_snapshots = snap_resp.rows_before

\* a snapshot was taken of a list with a nameless live process
C18_Witness ==
    /\ snap_resp.status # 0 /\ snap_resp.db_ok
    /\ snap_resp.table = <<Notepad, Denied, Miner>>

----------------------------------------------------------------------------
(* Properties of the risk scorer                                           *)

Points(cond, n) == IF cond THEN n ELSE 0

\* the rule engine: 40 for a keyword in the lower-cased name, 40 for
\* cpu > 80 or else 20 for cpu > 40, 20 for mem > 20, at most 100
RuleScore(name, cpu, mem) ==
    LET total ==
            Points(name.some /\ \E i \in 1..Len(suspicious_keywords) :
                       IsSubstring(suspicious_keywords[i], Lower(name.chars)), 40)
            + Points(cpu # Null /\ Tenths(cpu) > 800, 40)
            + Points(cpu # Null /\ Tenths(cpu) > 400 /\ Tenths(cpu) <= 800, 20)
            + Points(mem # Null /\ Tenths(mem) > 200, 20)
    IN  IF total > 100 THEN 100 ELSE total

RuleVerdict(score) ==
    CASE score >= 70 -> "Critical"
      [] score >= 40 /\ score < 70 -> "Suspicious"
      [] score >= 10 /\ score < 40 -> "Elevated"
      [] OTHER -> "Benign"

\* C9: compute_risk_and_verdict returns the score and the verdict of the
\* rule engine, and the same engine id for every input.
C9_MatchesRuleEngine ==
    risk_out.called =>
        /\ risk_out.score = RuleScore(risk_in.name, risk_in.cpu, risk_in.mem)
        /\ risk_out.verdict = RuleVerdict(risk_out.score)
        /\ risk_out.agent = "Khepri-ML v0.2"
        /\ risk_prev.called => risk_prev.agent = risk_out.agent

\* name="powershell.exe" in mixed case, cpu=50, mem=25: 80, Critical
C9_Witness ==
    /\ risk_out.called
    /\ risk_in.name = Name(<<"P", "o", "w", "e", "r", "S", "h", "e", "l", "l",
                             ".", "e", "x", "e">>)
    /\ risk_in.cpu = FloatV(500)
    /\ risk_in.mem = FloatV(250)
    /\ risk_out.score = 80
    /\ risk_out.verdict = "Critical"

Rank(verdict) ==
    CASE verdict = "Benign" -> 0
      [] verdict = "Elevated" -> 1
      [] verdict = "Suspicious" -> 2
      [] verdict = "Critical" -> 3

\* C10: the score lies in [0,100], and of two calls the one with the lower
\* score never gets the higher verdict.
C10_ScoreBoundedVerdictMonotonic ==
    risk_out.called =>
        /\ risk_out.score \in 0..100
        /\ risk_prev.called =>
              /\ risk_prev.score <= risk_out.score
                    => Rank(risk_prev.verdict) <= Rank(risk_out.verdict)
              /\ risk_out.score <= risk_prev.score
                    => Rank(risk_out.verdict) <= Rank(risk_prev.verdict)

\* a call with name, cpu and mem missing after a call that scored higher
C10_Witness ==
    /\ risk_out.called /\ risk_prev.called
    /\ ~risk_in.name.some /\ risk_in.cpu = Null /\ risk_in.mem = Null
    /\ risk_out.score < risk_prev.score
    /\ Rank(risk_out.verdict) < Rank(risk_prev.verdict)

=============================================================================
